---- MODULE Spec2Model ----
(***************************************************************************)
(* A state-machine model of the ZenJS reactive core:                       *)
(*   signal   (src/src/core/signal.ts, the .value API, lines 221-438)      *)
(*   computed (src/src/core/signal.ts, lines 440-607)                      *)
(*   effect   (src/src/jsx-runtime.ts, lines 171-274)                      *)
(*   scheduler (src/src/core/scheduler.ts, lines 1-55)                     *)
(*                                                                         *)
(* JavaScript runs the core on one thread, and every call is synchronous   *)
(* except the microtask that scheduleUpdate queues.  The model keeps the   *)
(* JavaScript call stack explicitly (variable stack): one frame per active *)
(* call of eff.fn, compute, batch or flushUpdates, and one step of the     *)
(* model is one statement-sized step of the frame on top.  User code (the  *)
(* bodies of effects, the functions passed to batch, the test script) is a *)
(* program of instructions <<op, a, b>>; the driver (the code at the top   *)
(* level of a test) picks its instructions from the scenario's alphabet.   *)
(***************************************************************************)
EXTENDS Integers, Sequences, FiniteSets, TLC

\* ---------------------------------------------------------------- bounds
\* Number of operations the top-level driver performs after the setup script.
MaxOps == 4
\* Cells hold values 0..MaxVal.
MaxVal == 1

\* ------------------------------------------------------ program constants
BITFIELD_THRESHOLD == 32
\* Symbol('unset'): no value of a cell or a production function equals it.
UNSET == -1
\* undefined, where an Effect is expected (currentEffect, an array slot).
NoEffect == 0

\* The producers of the scenarios: three cells and a chain of two derived
\* values, step1 = base * 2 and step2 = step1 + 10.
A == 1
B == 2
C == 3
D1 == 4
D2 == 5
Cells == {A, B, C}
Comps == {D1, D2}
Producers == Cells \cup Comps
Values == 0..MaxVal

\* The internal tracking effect (computedEffect) of derived value d.
CE(d) == 100 + d
IsCE(e) == e > 100
CompOf(e) == e - 100

\* ------------------------------------------------------------ JS helpers
Range(q) == {q[i] : i \in 1..Len(q)}

\* Set.prototype.add / delete on a Set kept in insertion order.
SetAdd(q, x) == IF x \in Range(q) THEN q ELSE Append(q, x)
SetDelete(q, x) == SelectSeq(q, LAMBDA y : y # x)

Slots == 0..(BITFIELD_THRESHOLD - 1)
\* new Array(BITFIELD_THRESHOLD): every slot undefined.
EmptySlots == [i \in Slots |-> NoEffect]
\* let subscribers (undefined); let bitfield = 0.  The bitfield is kept as
\* the set of its 1-bits: bit i is 1 << i, and i ranges over 0..31.
NoSubs == [tier |-> "none", one |-> NoEffect, slots |-> EmptySlots, set |-> <<>>]

\* for (let i = 0; i < BITFIELD_THRESHOLD; i++) if (!(bitfield & (1 << i)))
FreeBits(bf) == {i \in Slots : i \notin bf}
FirstFree(bf) == CHOOSE i \in FreeBits(bf) : \A j \in FreeBits(bf) : i <= j

\* for (i...) if (subscribers[i]) set.add(subscribers[i])
RECURSIVE SlotsToSet(_, _)
SlotsToSet(slots, i) ==
  IF i >= BITFIELD_THRESHOLD THEN <<>>
  ELSE LET rest == SlotsToSet(slots, i + 1)
       IN  IF slots[i] # NoEffect
           THEN <<slots[i]>> \o SetDelete(rest, slots[i])
           ELSE rest

\* signal: addSubscriber.  The result is the new subscribers and bitfield.
SignalAddSubscriber(s, bf, effect) ==
  IF s.tier = "none"
  THEN [s |-> [s EXCEPT !.tier = "single", !.one = effect], b |-> bf]
  ELSE IF s.tier = "single"
  THEN [s |-> [tier |-> "array", one |-> NoEffect,
               slots |-> [EmptySlots EXCEPT ![0] = s.one, ![1] = effect],
               set |-> <<>>],
        b |-> {0, 1}]
  ELSE IF s.tier = "array"
  THEN IF FreeBits(bf) # {}
       THEN [s |-> [s EXCEPT !.slots[FirstFree(bf)] = effect],
             b |-> bf \cup {FirstFree(bf)}]
       ELSE [s |-> [tier |-> "set", one |-> NoEffect, slots |-> EmptySlots,
                    set |-> SetAdd(SlotsToSet(s.slots, 0), effect)],
             b |-> {}]
  ELSE [s |-> [s EXCEPT !.set = SetAdd(s.set, effect)], b |-> bf]

\* computed: addSubscriber.  There is no inline single tier: the first
\* subscriber allocates the slot array.
ComputedAddSubscriber(s, bf, effect) ==
  IF s.tier = "none"
  THEN [s |-> [tier |-> "array", one |-> NoEffect,
               slots |-> [EmptySlots EXCEPT ![0] = effect], set |-> <<>>],
        b |-> {0}]
  ELSE IF s.tier = "array"
  THEN IF FreeBits(bf) # {}
       THEN [s |-> [s EXCEPT !.slots[FirstFree(bf)] = effect],
             b |-> bf \cup {FirstFree(bf)}]
       ELSE [s |-> [tier |-> "set", one |-> NoEffect, slots |-> EmptySlots,
                    set |-> SetAdd(SlotsToSet(s.slots, 0), effect)],
             b |-> {}]
  ELSE [s |-> [s EXCEPT !.set = SetAdd(s.set, effect)], b |-> bf]

\* A removeSubscriber that leaves the collection as it is.
SignalRemoveNothing(s, bf, effect) == [s |-> s, b |-> bf]

\* signal: removeSubscriber.
HoldingSlots(s, effect) == {i \in Slots : s.slots[i] = effect}
FirstHolding(s, effect) ==
  CHOOSE i \in HoldingSlots(s, effect) : \A j \in HoldingSlots(s, effect) : i <= j
\* A removeSubscriber that empties the slot and leaves its bit set.
SignalRemoveSlotOnly(s, bf, effect) ==
  IF s.tier = "array" /\ HoldingSlots(s, effect) # {}
  THEN [s |-> [s EXCEPT !.slots[FirstHolding(s, effect)] = NoEffect], b |-> bf]
  ELSE [s |-> s, b |-> bf]

SignalRemoveSubscriber(s, bf, effect) ==
  IF s.tier = "none" THEN [s |-> s, b |-> bf]
  ELSE IF s.tier = "single"
  THEN IF s.one = effect THEN [s |-> NoSubs, b |-> bf] ELSE [s |-> s, b |-> bf]
  ELSE IF s.tier = "array"
  THEN IF HoldingSlots(s, effect) # {}
       THEN [s |-> [s EXCEPT !.slots[FirstHolding(s, effect)] = NoEffect],
             b |-> bf \ {FirstHolding(s, effect)}]
       ELSE [s |-> s, b |-> bf]
  ELSE [s |-> [s EXCEPT !.set = SetDelete(s.set, effect)], b |-> bf]

\* The effects a notification pass hands to scheduleUpdate, in order.
\* while (bits) { if (bits & 1) scheduleUpdate(subscribers[index]); ... }
RECURSIVE BitScan(_, _, _)
BitScan(slots, bf, index) ==
  IF \A i \in bf : i < index THEN <<>>
  ELSE (IF index \in bf THEN <<slots[index]>> ELSE <<>>)
       \o BitScan(slots, bf, index + 1)

\* A bit scan that starts at bit 1 and so passes over slot 0.
SignalNotifyFromOne(s, bf) ==
  IF s.tier = "single" THEN <<s.one>>
  ELSE IF s.tier = "array" THEN BitScan(s.slots, bf, 1)
  ELSE s.set

\* The notify closure of a cell's setter.  With subscribers undefined it
\* reaches for (const sub of subscribers), which raises a TypeError.
NotifyRaises(s) == s.tier = "none"
SignalNotify(s, bf) ==
  IF s.tier = "single" THEN <<s.one>>
  ELSE IF s.tier = "array" THEN BitScan(s.slots, bf, 0)
  ELSE s.set

\* An internal effect that marks dirty and notifies nobody.
ComputedNotifyNone(s, bf) == <<>>

\* computed: notifySubscribers.
ComputedNotify(s, bf) ==
  IF s.tier = "none" THEN <<>>
  ELSE IF s.tier = "array" THEN BitScan(s.slots, bf, 0)
  ELSE s.set

\* A pending set that keeps duplicates (an array in place of the Set).
ScheduleUpdateDup(S, effect) ==
  [q   |-> Append(S.q, effect),
   sch |-> TRUE,
   mt  |-> IF S.sch THEN S.mt ELSE S.mt + 1]

\* A scheduleUpdate that adds to the pending set and queues no microtask.
ScheduleUpdateUnqueued(S, effect) ==
  [q |-> SetAdd(S.q, effect), sch |-> S.sch, mt |-> S.mt]

\* scheduleUpdate, on the scheduler's state [q, sch, mt]: the pending set,
\* isScheduled, and the number of flushUpdates callbacks in the microtask
\* queue.
ScheduleUpdate(S, effect) ==
  [q   |-> SetAdd(S.q, effect),
   sch |-> TRUE,
   mt  |-> IF S.sch THEN S.mt ELSE S.mt + 1]

\* for (const sub of subscribers) scheduleUpdate(sub): the scheduler's
\* state after the calls for effs, in order.  Every state of the scheduler
\* has S.mt >= 0; the test makes the state after one call a value before
\* the next call is evaluated.
RECURSIVE ScheduleAll(_, _)
ScheduleAll(S, effs) ==
  IF S.mt >= 0 /\ effs = <<>> THEN S
  ELSE ScheduleAll(ScheduleUpdate(S, Head(effs)), Tail(effs))

\* A setter without its equality test.
ObjectIsNever(x, y) == FALSE

\* Object.is on the values of the model (integers).
ObjectIs(x, y) == x = y

\* ------------------------------------------------------------- programs
\* User code is a sequence of instructions <<op, a, b>>:
\*   <<"get", p, 0>>     p.value                 (p a cell or a derived value)
\*   <<"peek", p, 0>>    p.peek()
\*   <<"set", c, v>>     c.value = v
\*   <<"batch", k, 0>>   batch(fn), fn the k-th nested function of the scenario
\*                       (k = 0: the driver chooses what fn does)
\*   <<"flushSync",0,0>> flushSync()
\*   <<"effect", e, 0>>  effect(body of e)
\*   <<"throw", 0, 0>>   throw new Error()
\*   <<"retc", 0, 0>>    return a cleanup function (an effect body)
\*   <<"getby", c, <<p0, p1>>>>  (read c before) ? p1.value : p0.value
\*   <<"dispose", e, 0>> if (dispose_e) dispose_e()
\*   <<"untrack", k, 0>> untrack(fn), fn the k-th nested function
I(op, a, b) == <<op, a, b>>

\* A scenario: the setup script, the body of each effect, the nested
\* functions, and the instructions the driver chooses from after the setup.
\* 'handles multiple subscribers efficiently': two effects read one cell.
ScnCounter ==
  [setup |-> <<I("effect", 1, 0), I("effect", 2, 0)>>,
   body  |-> <<  <<I("get", A, 0)>>,  <<I("get", A, 0), I("retc", 0, 0)>>  >>,
   subs  |-> <<>>,
   ops   |-> {I("set", A, v) : v \in Values}
             \cup {I("batch", 0, 0), I("flushSync", 0, 0), I("throw", 0, 0)}]

\* 'Deep computed chain scenario': an effect reads step2 = step1 + 10,
\* step1 = base * 2.
ScnChain ==
  [setup |-> <<I("effect", 1, 0)>>,
   body  |-> <<  <<I("get", D2, 0)>>  >>,
   subs  |-> <<>>,
   ops   |-> {I("set", A, v) : v \in Values}
             \cup {I("get", D1, 0), I("get", D2, 0), I("peek", D1, 0),
                   I("batch", 0, 0), I("flushSync", 0, 0)}]

\* 'Batch performance benefit': one effect reads a, b and c.
ScnAbc ==
  [setup |-> <<I("effect", 1, 0)>>,
   body  |-> <<  <<I("get", A, 0), I("get", B, 0), I("get", C, 0)>>  >>,
   subs  |-> <<>>,
   ops   |-> {I("set", c, v) : c \in Cells, v \in Values \ {0}}
             \cup {I("batch", 0, 0), I("get", A, 0), I("peek", B, 0)}]

\* 'Many subscribers performance': more effects than the slot array holds.
ManyEffects == BITFIELD_THRESHOLD + 2
ScnMany ==
  [setup |-> [e \in 1..ManyEffects |-> I("effect", e, 0)],
   body  |-> [e \in 1..ManyEffects |-> <<I("get", A, 0)>>],
   subs  |-> <<>>,
   ops   |-> {I("set", A, v) : v \in Values} \cup {I("flushSync", 0, 0)}]

\* Disposal: effect 1 reads a twice and returns a cleanup function, effect 2
\* reads step1 and b, effect 3 disposes itself in a re-run and then reads b.
ScnLife ==
  [setup |-> <<I("effect", 1, 0), I("effect", 2, 0), I("effect", 3, 0)>>,
   body  |-> <<  <<I("get", A, 0), I("get", A, 0), I("retc", 0, 0)>>,
                 <<I("get", D1, 0), I("get", B, 0)>>,
                 <<I("get", A, 0), I("dispose", 3, 0), I("get", B, 0)>>  >>,
   subs  |-> <<>>,
   ops   |-> {I("set", A, v) : v \in Values}
             \cup {I("set", B, 1)} \cup {I("dispose", e, 0) : e \in 1..3}]

\* Conditional dependencies: effect 1 reads c ? b : a, effect 2 reads
\* c ? b : step1.
ScnCond ==
  [setup |-> <<I("effect", 1, 0), I("effect", 2, 0)>>,
   body  |-> <<  <<I("get", C, 0), <<"getby", C, <<A, B>>>>  >>,
                 <<I("get", C, 0), <<"getby", C, <<D1, B>>>>  >>  >>,
   subs  |-> <<>>,
   ops   |-> {I("set", c, v) : c \in Cells, v \in Values \ {0}}]

\* Effects that write what they read: effect 1 directly, effect 2 inside a
\* batch it opens.
ScnSelf ==
  [setup |-> <<I("effect", 1, 0), I("effect", 2, 0)>>,
   body  |-> <<  <<I("get", A, 0), I("set", A, 1)>>,
                 <<I("get", B, 0), I("batch", 1, 0)>>  >>,
   subs  |-> <<  <<I("set", B, 1)>>  >>,
   ops   |-> {I("set", c, v) : c \in {A, B}, v \in Values}]

\* 'supports peek without tracking': an effect that only peeks.
ScnPeek ==
  [setup |-> <<I("effect", 1, 0)>>,
   body  |-> <<  <<I("peek", A, 0), I("peek", D1, 0)>>  >>,
   subs  |-> <<>>,
   ops   |-> {I("set", A, v) : v \in Values}
             \cup {I("get", D1, 0), I("peek", D1, 0)}]

\* README 'Untrack': a is tracked, b and step1 are read inside untrack; in
\* effect 2 the function passed to untrack raises.
ScnUntrack ==
  [setup |-> <<I("effect", 1, 0), I("effect", 2, 0)>>,
   body  |-> <<  <<I("get", A, 0), I("untrack", 1, 0)>>,
                 <<I("get", A, 0), I("untrack", 2, 0)>>  >>,
   subs  |-> <<  <<I("get", B, 0), I("get", D1, 0)>>,
                 <<I("get", B, 0), I("throw", 0, 0)>>  >>,
   ops   |-> {I("set", c, v) : c \in {A, B}, v \in Values}]

\* Failing bodies: effect 1 raises once b is set and effect 2 reads b after
\* it; effect 3 reads step1, whose function raises once a is set.
ScnFail ==
  [setup |-> <<I("effect", 1, 0), I("effect", 2, 0), I("effect", 3, 0)>>,
   body  |-> <<  <<I("get", B, 0), I("throwby", B, 0)>>,
                 <<I("get", B, 0)>>,
                 <<I("get", D1, 0)>>  >>,
   subs  |-> <<>>,
   ops   |-> {I("set", A, v) : v \in Values}
             \cup {I("set", B, 1), I("get", D1, 0)}]

\* Creation in context: the body of effect 1 creates effect 2, and a batch
\* that has written a creates effect 3.
ScnNest ==
  [setup |-> <<I("effect", 1, 0), I("batch", 1, 0)>>,
   body  |-> <<  <<I("get", C, 0), I("effect", 2, 0)>>,
                 <<I("get", A, 0)>>,
                 <<I("get", A, 0)>>  >>,
   subs  |-> <<  <<I("set", A, 1), I("effect", 3, 0)>>  >>,
   ops   |-> {I("set", A, v) : v \in Values}]

\* The only subscriber of a leaves, possibly between a write in a batch and
\* the exit of the batch.
ScnUnsub ==
  [setup |-> <<I("effect", 1, 0)>>,
   body  |-> <<  <<I("get", A, 0)>>  >>,
   subs  |-> <<>>,
   ops   |-> {I("set", A, v) : v \in Values}
             \cup {I("batch", 0, 0), I("dispose", 1, 0)}]

\* A cascade: the chain of 'Deep computed chain scenario' under writes
\* only.
ScnCascade ==
  [setup |-> <<I("effect", 1, 0)>>,
   body  |-> <<  <<I("get", D2, 0)>>  >>,
   subs  |-> <<>>,
   ops   |-> {I("set", A, v) : v \in Values}]

\* A body that reads one cell in a loop, once more than the slot array has
\* slots: for (let i = 0; i <= BITFIELD_THRESHOLD; i++) a.value
ScnLoop ==
  [setup |-> <<I("effect", 1, 0)>>,
   body  |-> <<  [i \in 1..(BITFIELD_THRESHOLD + 1) |-> I("get", A, 0)]  >>,
   subs  |-> <<>>,
   ops   |-> {I("set", A, v) : v \in Values}]

\* 'handles conditional dependencies', for a derived value: its function
\* reads c ? b : a, and one effect reads the derived value.
ScnDyn ==
  [setup |-> <<I("effect", 1, 0)>>,
   body  |-> <<  <<I("get", D1, 0)>>  >>,
   subs  |-> <<>>,
   ops   |-> {I("set", A, v) : v \in Values}
             \cup {I("set", C, 1), I("get", D1, 0)}]

\* An effect that reads a cell and a derived value of that cell: base and
\* step1 = base * 2.
ScnBoth ==
  [setup |-> <<I("effect", 1, 0)>>,
   body  |-> <<  <<I("get", A, 0), I("get", D1, 0)>>  >>,
   subs  |-> <<>>,
   ops   |-> {I("set", A, v) : v \in Values}]

Scenarios == {"counter", "chain", "abc", "many"}
LifeScenarios == {"life", "cond", "self", "peek", "untrack", "fail", "nest",
                  "unsub", "loop", "dyn", "both"}
ScnDef(name) ==
  CASE name = "counter" -> ScnCounter
    [] name = "life"    -> ScnLife
    [] name = "cond"    -> ScnCond
    [] name = "self"    -> ScnSelf
    [] name = "peek"    -> ScnPeek
    [] name = "untrack" -> ScnUntrack
    [] name = "fail"    -> ScnFail
    [] name = "nest"    -> ScnNest
    [] name = "unsub"   -> ScnUnsub
    [] name = "cascade" -> ScnCascade
    [] name = "loop"    -> ScnLoop
    [] name = "dyn"     -> ScnDyn
    [] name = "both"    -> ScnBoth
    [] name = "chain"   -> ScnChain
    [] name = "abc"     -> ScnAbc
    [] name = "many"    -> ScnMany

\* ------------------------------------------------------------------ state
VARIABLES
  \* signal: let value, version, subscribers, bitfield (also computed's
  \* subscribers and bitfield), per producer
  value, version, subscribers, bitfield,
  \* computed: let cache, dirty, computedEffect (is it created)
  cache, dirty, computedEffect,
  \* Effect: dependencies, cleanup (is one pending), _isRunning, _disposed;
  \* created: effect(fn) has been called for it; disposer: effect(fn) has
  \* returned its dispose function to the caller
  dependencies, cleanup, isRunning, disposed, created, disposer,
  \* scheduler: updateQueue, isScheduled, and the number of flushUpdates
  \* callbacks waiting in the microtask queue
  updateQueue, isScheduled, microtasks,
  \* batch: batchDepth, batchedUpdates (the cell of each notify closure)
  batchDepth, batchedUpdates,
  \* effect.ts: currentEffect
  currentEffect,
  \* the call stack, the exception being propagated ("none" if none), the
  \* driver's remaining operations, the scenario
  stack, exc, fuel, scn,
  \* history variables, read by the properties only (cleaned: how often
  \* the cleanup function an effect's latest run returned has been called;
  \* waits: the effects handed to scheduleUpdate whose body has not started
  \* since)
  last, rd, runs, computeCount, sinceW, seen, tracked, cleaned, waits, stale, owed, bg

sigVars   == <<value, version>>
subVars   == <<subscribers, bitfield>>
compVars  == <<cache, dirty, computedEffect>>
effVars   == <<dependencies, cleanup, isRunning, disposed, created, disposer>>
schedVars == <<updateQueue, isScheduled, microtasks>>
batchVars == <<batchDepth, batchedUpdates>>
histVars  == <<last, rd, runs, computeCount, sinceW, seen, tracked, cleaned, waits, stale,
               owed, bg>>
vars == <<value, version, subscribers, bitfield, cache, dirty, computedEffect,
          dependencies, cleanup, isRunning, disposed, created, disposer,
          updateQueue, isScheduled, microtasks, batchDepth, batchedUpdates,
          currentEffect, stack, exc, fuel, scn,
          last, rd, runs, computeCount, sinceW, seen, tracked, cleaned, waits, stale, owed, bg>>

Scn == ScnDef(scn)
EffIds == 1..Len(Scn.body)
AllEffs == EffIds \cup {CE(d) : d \in Comps}

\* The production functions: the producers each reads, and its result from
\* the values read (obs).
FnProg(d) ==
  IF d = D1
  THEN IF scn = "fail" THEN <<I("get", A, 0), I("throwby", A, 0)>>
       ELSE IF scn = "dyn" THEN <<I("get", C, 0), <<"getby", C, <<A, B>>>>  >>
       ELSE <<I("get", A, 0)>>
  ELSE <<I("get", D1, 0)>>
FnResult(d, obs) ==
  IF d = D1
  THEN IF scn = "dyn" THEN (IF obs[C] = 0 THEN obs[A] ELSE obs[B])
       ELSE obs[A] * 2
  ELSE obs[D1] + 10

\* What a frame has read so far: UNSET for a producer it has not read.
NoObs == [p \in Producers |-> UNSET]

\* A frame of the call stack.  k: "script", "effect" (eff.fn running the body
\* of effect id), "compute" (compute() of derived value id), "batch",
\* "flush" (flushUpdates), "untrack" (untrack(fn)).  prog, pc: the user code the frame runs and the
\* next instruction.  prev: the saved currentEffect.  obs: the values read.
\* drv: a batch whose fn the driver plays.  ph: a batch is in its "body" or
\* in its finally block ("fin"), pend the exception the finally block will
\* rethrow.  q: effectsToRun.  m: how the derived value was read.  ret: the
\* body returned a cleanup function.  d0, ran, owe, w, had: history (the
\* batch depth before the call; the effects this flush pass ran; the effects
\* a non-batched write notified before the pass; the writes to the derived
\* value's cells since its last read, whether it had a cached value, and
\* whether that value was not dirty, when the read that computes began).
\* first: the run effect(fn) makes itself.  trk: the producers the body has
\* read through .value outside untrack, so far in this run (history).
Frame0 ==
  [k |-> "", id |-> 0, prog |-> <<>>, pc |-> 1, prev |-> NoEffect,
   obs |-> NoObs, drv |-> FALSE, ph |-> "", pend |-> "none", q |-> <<>>,
   m |-> "", ret |-> FALSE, d0 |-> 0, ran |-> <<>>, owe |-> {},
   w |-> 0, had |-> FALSE, clean |-> FALSE, first |-> FALSE, trk |-> {}]

Top == stack[Len(stack)]
Pop == SubSeq(stack, 1, Len(stack) - 1)
Push(st, f) == Append(st, f)

\* The frame on top runs user code and has an instruction left.
IsProg(f) == f.k \in {"script", "effect", "compute", "untrack"}
             \/ (f.k = "batch" /\ ~f.drv /\ f.ph = "body")
ProgMode == exc = "none" /\ stack # <<>> /\ IsProg(Top)
            /\ Top.pc <= Len(Top.prog)
\* The driver is in control: at the top level, or inside a batch it opened.
InDriverBatch == stack # <<>> /\ Top.k = "batch" /\ Top.drv /\ Top.ph = "body"
DriverMode == exc = "none" /\ fuel > 0 /\ (stack = <<>> \/ InDriverBatch)
\* <<"getby", c, <<p0, p1>>>> reads p0 if the value the frame read from c
\* is 0, and p1 otherwise.  <<"throwby", c, 0>> is if (c) throw new Error(),
\* on the value the frame read from c.
Resolve(ins) ==
  IF ins[1] = "getby"
  THEN <<"get", IF Top.obs[ins[2]] = 0 THEN ins[3][1] ELSE ins[3][2], 0>>
  ELSE IF ins[1] = "throwby"
  THEN <<IF Top.obs[ins[2]] = 0 THEN "nothrow" ELSE "throw", ins[2], 0>>
  ELSE ins
\* The instructions that may execute next.
Instrs == IF ProgMode THEN {Resolve(Top.prog[Top.pc])}
          ELSE IF DriverMode THEN Scn.ops ELSE {}
\* The stack once the instruction is taken.
Base == IF ProgMode THEN [stack EXCEPT ![Len(stack)].pc = @ + 1] ELSE stack
FuelNext == fuel' = IF ProgMode THEN fuel ELSE fuel - 1

\* The value a read returns goes to the frame that reads.
Deliver(st, p, v) ==
  IF st # <<>> /\ IsProg(st[Len(st)])
  THEN [st EXCEPT ![Len(st)].obs[p] = v] ELSE st

\* The frames in whose context a read is tracked or not: the body of an
\* effect, the fn of a derived value, the fn of untrack.
Contexts(st) == {j \in 1..Len(st) : st[j].k \in {"effect", "compute", "untrack"}}
EnclIdx(st) == IF Contexts(st) = {} THEN 0
               ELSE CHOOSE j \in Contexts(st) : \A i \in Contexts(st) : i <= j
\* The effect whose body is executing at the top of stack st, outside
\* untrack and outside the fn of a derived value (NoEffect if none).
Encl(st) ==
  IF EnclIdx(st) = 0 THEN NoEffect
  ELSE IF st[EnclIdx(st)].k = "effect" THEN st[EnclIdx(st)].id
  ELSE IF st[EnclIdx(st)].k = "compute" THEN CE(st[EnclIdx(st)].id)
  ELSE NoEffect
\* The body that executes on st reads producer p through .value.
Note(st, p) ==
  IF Encl(st) \in EffIds
  THEN [st EXCEPT ![EnclIdx(st)].trk = @ \cup {p}] ELSE st

Last(op, p, v, x) == [op |-> op, p |-> p, v |-> v, x |-> x]
NoRead == [p |-> 0, v |-> UNSET, computed |-> FALSE, writes |-> 0,
           had |-> FALSE, clean |-> FALSE, m |-> ""]

\* The state once the modules are loaded, before the scenario's script runs.
Start ==
  /\ value = [c \in Cells |-> 0]
  /\ version = [c \in Cells |-> 0]
  /\ subscribers = [p \in Producers |-> NoSubs]
  /\ bitfield = [p \in Producers |-> {}]
  /\ cache = [d \in Comps |-> UNSET]
  /\ dirty = [d \in Comps |-> TRUE]
  /\ computedEffect = [d \in Comps |-> FALSE]
  /\ dependencies = [e \in AllEffs |-> {}]
  /\ cleanup = [e \in EffIds |-> FALSE]
  /\ isRunning = [e \in EffIds |-> FALSE]
  /\ disposed = [e \in EffIds |-> FALSE]
  /\ created = [e \in EffIds |-> FALSE]
  /\ disposer = [e \in EffIds |-> FALSE]
  /\ updateQueue = <<>>
  /\ isScheduled = FALSE
  /\ microtasks = 0
  /\ batchDepth = 0
  /\ batchedUpdates = <<>>
  /\ currentEffect = NoEffect
  /\ stack = <<[Frame0 EXCEPT !.k = "script", !.prog = Scn.setup]>>
  /\ exc = "none"
  /\ fuel = MaxOps
  /\ last = Last("init", 0, 0, 0)
  /\ rd = NoRead
  /\ runs = [e \in EffIds |-> 0]
  /\ computeCount = [d \in Comps |-> 0]
  /\ sinceW = [d \in Comps |-> 0]
  /\ seen = [e \in EffIds |-> NoObs]
  /\ tracked = [e \in EffIds |-> {}]
  /\ cleaned = [e \in EffIds |-> 0]
  /\ waits = {}
  /\ stale = [d \in Comps |-> 0]
  /\ owed = {}
  /\ bg = [snap |-> [e \in EffIds |-> 0], dir |-> [e \in EffIds |-> {}],
           aff |-> {}]

Init == scn \in Scenarios /\ Start

\* ---------------------------------------------------------- history aids
\* The effects held by a subscriber collection, whatever its tier.
SubscribersOf(s) ==
  IF s.tier = "none" THEN {}
  ELSE IF s.tier = "single" THEN {s.one}
  ELSE IF s.tier = "array" THEN {s.slots[i] : i \in Slots} \ {NoEffect}
  ELSE Range(s.set)

\* The cells a production function reads, directly or through the derived
\* values it reads.
ReadBy(ins) == IF ins[1] = "getby" THEN {ins[2], ins[3][1], ins[3][2]}
              ELSE {ins[2]}
RECURSIVE Sources(_)
Sources(d) ==
  UNION {UNION {IF p \in Cells THEN {p} ELSE Sources(p) : p \in ReadBy(FnProg(d)[i])}
           : i \in 1..Len(FnProg(d))}

\* Effect e read cell c in its last run, directly or through derived values.
RECURSIVE DependsOn(_, _)
DependsOn(e, c) ==
  \/ c \in dependencies[e]
  \/ \E d \in dependencies[e] \cap Comps : DependsOn(CE(d), c)

Count(q, x) == Cardinality({i \in 1..Len(q) : q[i] = x})
Bump(n) == IF n < 2 THEN n + 1 ELSE n

\* ---------------------------------------------------------------- signal
\* .value getter of a cell.
SignalGet ==
  \E ins \in Instrs :
    /\ ins[1] = "get" /\ ins[2] \in Cells
    /\ LET c == ins[2]
           effect == currentEffect
           r == IF effect # NoEffect
                THEN SignalAddSubscriber(subscribers[c], bitfield[c], effect)
                ELSE [s |-> subscribers[c], b |-> bitfield[c]]
       IN  /\ subscribers' = [subscribers EXCEPT ![c] = r.s]
           /\ bitfield' = [bitfield EXCEPT ![c] = r.b]
           /\ dependencies' = IF effect # NoEffect
                              THEN [dependencies EXCEPT ![effect] = @ \cup {c}]
                              ELSE dependencies
           /\ stack' = Note(Deliver(Base, c, value[c]), c)
           /\ last' = Last("get", c, value[c], 0)
    /\ FuelNext
    /\ UNCHANGED <<sigVars, compVars, cleanup, isRunning, disposed, created,
                   disposer, schedVars, batchVars, currentEffect, exc, scn,
                   rd, runs, computeCount, sinceW, seen, tracked, cleaned, waits, stale, owed, bg>>

\* peek() of a cell.
SignalPeek ==
  \E ins \in Instrs :
    /\ ins[1] = "peek" /\ ins[2] \in Cells
    /\ stack' = Deliver(Base, ins[2], value[ins[2]])
    /\ last' = Last("peek", ins[2], value[ins[2]], 0)
    /\ FuelNext
    /\ UNCHANGED <<sigVars, subVars, compVars, effVars, schedVars, batchVars,
                   currentEffect, exc, scn,
                   rd, runs, computeCount, sinceW, seen, tracked, cleaned, waits, stale, owed, bg>>

\* isBatching()
\* A setter that never defers.
IsBatchingNever == FALSE

IsBatching == batchDepth > 0

\* .value setter of a cell.
SignalSet ==
  \E ins \in Instrs :
    /\ ins[1] = "set"
    /\ LET c == ins[2]
           newValue == ins[3]
           s == subscribers[c]
           S0 == [q |-> updateQueue, sch |-> isScheduled, mt |-> microtasks]
           changed == ~ObjectIs(value[c], newValue)
           notify == changed /\ s.tier # "none"
           S1 == IF notify /\ ~IsBatching
                 THEN ScheduleAll(S0, SignalNotify(s, bitfield[c])) ELSE S0
       IN  /\ value' = IF changed THEN [value EXCEPT ![c] = newValue] ELSE value
           /\ version' = IF changed THEN [version EXCEPT ![c] = @ + 1] ELSE version
           /\ updateQueue' = S1.q
           /\ isScheduled' = S1.sch
           /\ microtasks' = S1.mt
           /\ batchedUpdates' = IF notify /\ IsBatching
                                THEN Append(batchedUpdates, c) ELSE batchedUpdates
           /\ last' = Last("set", c, newValue, IF changed THEN 1 ELSE 0)
           /\ waits' = IF notify /\ ~IsBatching
                       THEN waits \cup (Range(SignalNotify(s, bitfield[c]))
                                          \cap EffIds)
                       ELSE waits
           /\ stale' = IF changed
                       THEN [d \in Comps |->
                               IF c \in Sources(d) THEN Bump(stale[d]) ELSE stale[d]]
                       ELSE stale
           /\ sinceW' = IF changed
                        THEN [d \in Comps |->
                                IF c \in Sources(d) THEN 0 ELSE sinceW[d]]
                        ELSE sinceW
           /\ owed' = IF changed /\ batchDepth = 0
                      THEN owed \cup (SubscribersOf(s) \cap EffIds) ELSE owed
           /\ bg' = IF changed /\ batchDepth > 0
                    THEN [bg EXCEPT
                            !.dir = [e \in EffIds |->
                                       IF c \in dependencies[e] /\ ~disposed[e]
                                       THEN bg.dir[e] \cup {c} ELSE bg.dir[e]],
                            !.aff = bg.aff \cup {e \in EffIds :
                                                   ~disposed[e] /\ DependsOn(e, c)}]
                    ELSE bg
    /\ stack' = Base
    /\ FuelNext
    /\ UNCHANGED <<subVars, compVars, effVars, batchDepth, currentEffect, exc,
                   scn, rd, runs, computeCount, seen, tracked, cleaned>>

\* -------------------------------------------------------------- computed
\* A getter that computes only while nothing is cached.
NeedsComputeUnset(d) == cache[d] = UNSET

\* if (dirty || cache === UNSET) return compute()
NeedsCompute(d) == dirty[d] \/ cache[d] = UNSET

\* A peek that tracks like the .value getter.
TracksAlways(m, effect) == effect # NoEffect

\* The .value getter registers the current effect (if (effect) { ... });
\* peek has no such code.
Tracks(m, effect) == m = "get" /\ effect # NoEffect

\* .value getter and peek() of a derived value, up to the call of fn.
ComputedGet ==
  \E ins \in Instrs :
    /\ ins[1] \in {"get", "peek"} /\ ins[2] \in Comps
    /\ LET d == ins[2]
           effect == currentEffect
           track == Tracks(ins[1], effect)
           base1 == IF ins[1] = "get" THEN Note(Base, d) ELSE Base
           r == IF track
                THEN ComputedAddSubscriber(subscribers[d], bitfield[d], effect)
                ELSE [s |-> subscribers[d], b |-> bitfield[d]]
           deps1 == IF track THEN [dependencies EXCEPT ![effect] = @ \cup {d}]
                    ELSE dependencies
           clean == ~dirty[d] /\ cache[d] # UNSET
       IN  /\ subscribers' = [subscribers EXCEPT ![d] = r.s]
           /\ bitfield' = [bitfield EXCEPT ![d] = r.b]
           /\ stale' = [stale EXCEPT ![d] = 0]
           /\ IF NeedsCompute(d)
              THEN \* compute(): create computedEffect if needed, clear its
                   \* dependencies, make it the current effect, call fn
                   /\ computedEffect' = [computedEffect EXCEPT ![d] = TRUE]
                   /\ dependencies' = [deps1 EXCEPT ![CE(d)] = {}]
                   /\ currentEffect' = CE(d)
                   /\ stack' = Push(base1, [Frame0 EXCEPT
                                   !.k = "compute", !.id = d, !.prog = FnProg(d),
                                   !.prev = currentEffect, !.m = ins[1],
                                   !.w = stale[d], !.had = cache[d] # UNSET,
                                   !.clean = clean])
                   /\ computeCount' = [computeCount EXCEPT ![d] = @ + 1]
                   /\ sinceW' = [sinceW EXCEPT ![d] = @ + 1]
                   /\ last' = Last("compute", d, 0, 0)
                   /\ rd' = rd
              ELSE /\ dependencies' = deps1
                   /\ stack' = Deliver(base1, d, cache[d])
                   /\ last' = Last(ins[1], d, cache[d], 0)
                   /\ rd' = [p |-> d, v |-> cache[d], computed |-> FALSE,
                             writes |-> stale[d], had |-> cache[d] # UNSET,
                             clean |-> clean, m |-> ins[1]]
                   /\ UNCHANGED <<computedEffect, currentEffect, computeCount,
                                  sinceW>>
    /\ FuelNext
    /\ UNCHANGED <<sigVars, cache, dirty, cleanup, isRunning, disposed, created,
                   disposer, schedVars, batchVars, exc, scn, runs, seen, tracked, cleaned, waits, owed, bg>>

\* A finally block that does not put the saved effect back.
PrevEffectLost(f) == NoEffect

\* const previousEffect = currentEffect (eff.fn), const prevEffect =
\* currentEffect (compute): the effect the finally block puts back.
PrevEffect(f) == f.prev

\* compute(): fn has returned.  cache = value; dirty = false; finally
\* setCurrentEffect(prevEffect).
ComputeReturn ==
  /\ exc = "none" /\ stack # <<>> /\ Top.k = "compute"
  /\ Top.pc > Len(Top.prog)
  /\ LET d == Top.id
         v == FnResult(d, Top.obs)
     IN  /\ cache' = [cache EXCEPT ![d] = v]
         /\ dirty' = [dirty EXCEPT ![d] = FALSE]
         /\ currentEffect' = PrevEffect(Top)
         /\ stack' = Deliver(Pop, d, v)
         /\ last' = Last(Top.m, d, v, 1)
         /\ rd' = [p |-> d, v |-> v, computed |-> TRUE, writes |-> Top.w,
                   had |-> Top.had, clean |-> Top.clean, m |-> Top.m]
  /\ UNCHANGED <<sigVars, subVars, computedEffect, effVars, schedVars,
                 batchVars, exc, fuel, scn,
                 runs, computeCount, sinceW, seen, tracked, cleaned, waits, stale, owed, bg>>

\* compute(): fn has raised.  cache and dirty keep their values; finally
\* setCurrentEffect(prevEffect); the exception goes on to the reader.
ComputeRaise ==
  /\ exc # "none" /\ stack # <<>> /\ Top.k = "compute"
  /\ currentEffect' = PrevEffect(Top)
  /\ stack' = Pop
  /\ last' = Last("computeRaised", Top.id, 0, 0)
  /\ UNCHANGED <<sigVars, subVars, compVars, effVars, schedVars, batchVars,
                 exc, fuel, scn,
                 rd, runs, computeCount, sinceW, seen, tracked, cleaned, waits, stale, owed, bg>>

\* ---------------------------------------------------------------- effect
\* The subscribers and bitfield of producer p once eff.fn, or the disposer,
\* has removed effect e from its old dependencies: a dependency without
\* _removeSubscriber (a derived value) is skipped.
Unsubscribed(p, e) ==
  IF p \in Cells /\ p \in dependencies[e]
  THEN SignalRemoveSubscriber(subscribers[p], bitfield[p], e)
  ELSE [s |-> subscribers[p], b |-> bitfield[p]]

\* An eff.fn without its disposed test.
IsDisposedNever(e) == FALSE

\* if (eff._disposed) return
IsDisposed(e) == disposed[e]

\* An eff.fn that does nothing.
RunNothing(e, st) ==
  /\ stack' = st
  /\ UNCHANGED <<subVars, dependencies, cleanup, isRunning, currentEffect,
                 runs, cleaned, waits>>

\* eff.fn(), up to the call of the body; st is the caller's stack.
RunEffect(e, st) ==
  IF IsDisposed(e)
  THEN /\ stack' = st
       /\ UNCHANGED <<subVars, dependencies, cleanup, isRunning,
                      currentEffect, runs, cleaned, waits>>
  ELSE /\ cleanup' = [cleanup EXCEPT ![e] = FALSE]
       /\ waits' = waits \ {e}
       /\ cleaned' = IF cleanup[e] THEN [cleaned EXCEPT ![e] = Bump(@)]
                     ELSE cleaned
       /\ subscribers' = [p \in Producers |-> Unsubscribed(p, e).s]
       /\ bitfield' = [p \in Producers |-> Unsubscribed(p, e).b]
       /\ dependencies' = [dependencies EXCEPT ![e] = {}]
       /\ currentEffect' = e
       /\ isRunning' = [isRunning EXCEPT ![e] = TRUE]
       /\ stack' = Push(st, [Frame0 EXCEPT !.k = "effect", !.id = e,
                                            !.prog = Scn.body[e],
                                            !.prev = currentEffect,
                                            !.first = (runs[e] = 0)])
       /\ runs' = [runs EXCEPT ![e] = @ + 1]

\* effect(fn): build the Effect and run it immediately.
CreateEffect ==
  \E ins \in Instrs :
    /\ ins[1] = "effect"
    /\ ~created[ins[2]]
    /\ created' = [created EXCEPT ![ins[2]] = TRUE]
    /\ RunEffect(ins[2], Base)
    /\ last' = Last("effect", ins[2], 0, 0)
    /\ FuelNext
    /\ UNCHANGED <<sigVars, compVars, disposed, disposer, schedVars, batchVars,
                   exc, scn, rd, computeCount, sinceW, seen, tracked, stale, owed, bg>>

\* The body returns a cleanup function.
ReturnCleanup ==
  \E ins \in Instrs :
    /\ ins[1] = "retc"
    /\ Top.k = "effect"
    /\ stack' = [stack EXCEPT ![Len(stack)].ret = TRUE,
                              ![Len(stack)].pc = Len(Top.prog) + 1]
    /\ last' = Last("retc", Top.id, 0, 0)
    /\ UNCHANGED <<sigVars, subVars, compVars, effVars, schedVars, batchVars,
                   currentEffect, exc, fuel, scn,
                   rd, runs, computeCount, sinceW, seen, tracked, cleaned, waits, stale, owed, bg>>

\* eff.fn(): the body has returned.  Keep the cleanup function; finally
\* currentEffect = previousEffect; eff._isRunning = false.
EffectReturn ==
  /\ exc = "none" /\ stack # <<>> /\ Top.k = "effect"
  /\ Top.pc > Len(Top.prog)
  /\ cleanup' = IF Top.ret THEN [cleanup EXCEPT ![Top.id] = TRUE] ELSE cleanup
  /\ currentEffect' = PrevEffect(Top)
  /\ isRunning' = [isRunning EXCEPT ![Top.id] = FALSE]
  /\ stack' = Pop
  /\ disposer' = IF Top.first THEN [disposer EXCEPT ![Top.id] = TRUE]
                 ELSE disposer
  /\ seen' = [seen EXCEPT ![Top.id] = Top.obs]
  /\ tracked' = [tracked EXCEPT ![Top.id] = Top.trk]
  /\ cleaned' = IF Top.ret THEN [cleaned EXCEPT ![Top.id] = 0] ELSE cleaned
  /\ last' = Last("ran", Top.id, 0, 0)
  /\ UNCHANGED <<sigVars, subVars, compVars, dependencies, disposed, created,
                 schedVars, batchVars, exc, fuel, scn,
                 rd, runs, computeCount, sinceW, waits, stale, owed, bg>>

\* The setup script has run to its end.
ScriptDone ==
  /\ exc = "none" /\ stack # <<>> /\ Top.k = "script"
  /\ Top.pc > Len(Top.prog)
  /\ stack' = Pop
  /\ last' = Last("ready", 0, 0, 0)
  /\ UNCHANGED <<sigVars, subVars, compVars, effVars, schedVars, batchVars,
                 currentEffect, exc, fuel, scn,
                 rd, runs, computeCount, sinceW, seen, tracked, cleaned, waits, stale, owed, bg>>

\* ------------------------------------------------------------- scheduler
\* flushUpdates(), up to its loop: isScheduled = false; effectsToRun =
\* updateQueue; updateQueue = new Set().  st is the caller's stack, Q the
\* pending set, m who called ("sync": flushSync, "micro": the microtask).
FlushUpdates(st, Q, m) ==
  /\ isScheduled' = FALSE
  /\ updateQueue' = <<>>
  /\ stack' = Push(st, [Frame0 EXCEPT !.k = "flush", !.q = Q, !.m = m,
                                       !.owe = owed])
  /\ owed' = {}

\* flushSync()
FlushSync ==
  \E ins \in Instrs :
    /\ ins[1] = "flushSync"
    /\ IF updateQueue # <<>>
       THEN FlushUpdates(Base, updateQueue, "sync")
       ELSE /\ stack' = Base
            /\ UNCHANGED <<updateQueue, isScheduled, owed>>
    /\ last' = Last("flushSync", 0, 0, 0)
    /\ FuelNext
    /\ UNCHANGED <<sigVars, subVars, compVars, effVars, microtasks, batchVars,
                   currentEffect, exc, scn,
                   rd, runs, computeCount, sinceW, seen, tracked, cleaned, waits, stale, bg>>

\* The microtask queued by scheduleUpdate or flushUpdates runs: the call
\* stack is empty.
Microtask ==
  /\ exc = "none" /\ stack = <<>> /\ microtasks > 0
  /\ microtasks' = microtasks - 1
  /\ FlushUpdates(stack, updateQueue, "micro")
  /\ last' = Last("microtask", 0, 0, 0)
  /\ UNCHANGED <<sigVars, subVars, compVars, effVars, batchVars,
                 currentEffect, exc, fuel, scn,
                 rd, runs, computeCount, sinceW, seen, tracked, cleaned, waits, stale, bg>>

\* A loop that runs an effect whatever its _isRunning flag.
IsRunningNever(e) == FALSE

\* if (!effect._isRunning)
IsRunning(e) == isRunning[e]

\* flushUpdates(): one turn of for (const effect of effectsToRun)
\*   if (!effect._isRunning) effect.fn()
\* The fn of a computedEffect is: dirty = true; notifySubscribers().
FlushStep ==
  /\ exc = "none" /\ stack # <<>> /\ Top.k = "flush"
  /\ Top.pc <= Len(Top.q)
  /\ LET effect == Top.q[Top.pc]
         st == [stack EXCEPT ![Len(stack)].pc = @ + 1]
         S0 == [q |-> updateQueue, sch |-> isScheduled, mt |-> microtasks]
     IN  IF IsCE(effect)
         THEN LET d == CompOf(effect)
                  S1 == ScheduleAll(S0, ComputedNotify(subscribers[d], bitfield[d]))
              IN  /\ dirty' = [dirty EXCEPT ![d] = TRUE]
                  /\ updateQueue' = S1.q
                  /\ isScheduled' = S1.sch
                  /\ microtasks' = S1.mt
                  /\ stack' = st
                  /\ last' = Last("invalidate", d, 0, 0)
                  /\ waits' = waits \cup (Range(ComputedNotify(subscribers[d],
                                                                bitfield[d]))
                                             \cap EffIds)
                  /\ UNCHANGED <<subVars, dependencies, cleanup, isRunning,
                                 currentEffect, runs, cleaned>>
         ELSE IF IsRunning(effect)
         THEN /\ stack' = st
              /\ last' = Last("skip", effect, 0, 0)
              /\ UNCHANGED <<subVars, dependencies, cleanup, isRunning,
                             currentEffect, runs, cleaned, waits, dirty,
                             schedVars>>
         ELSE /\ RunEffect(effect,
                           IF disposed[effect] THEN st
                           ELSE [st EXCEPT ![Len(st)].ran = Append(@, effect)])
              /\ last' = Last("run", effect, 0, 0)
              /\ UNCHANGED <<dirty, schedVars>>
  /\ UNCHANGED <<sigVars, cache, computedEffect, disposed, created, disposer,
                 batchVars,
                 exc, fuel, scn, rd, computeCount, sinceW, seen, tracked, stale, owed, bg>>

\* flushUpdates(): the loop is over.  if (updateQueue.size > 0)
\*   { isScheduled = true; queueMicrotask(flushUpdates) }
FlushDone ==
  /\ exc = "none" /\ stack # <<>> /\ Top.k = "flush"
  /\ Top.pc > Len(Top.q)
  /\ isScheduled' = IF updateQueue # <<>> THEN TRUE ELSE isScheduled
  /\ microtasks' = IF updateQueue # <<>> THEN microtasks + 1 ELSE microtasks
  /\ stack' = Pop
  /\ last' = Last(IF Top.m = "sync" THEN "flushSyncReturn" ELSE "flushed",
                  0, 0, 0)
  /\ UNCHANGED <<sigVars, subVars, compVars, effVars, updateQueue, batchVars,
                 currentEffect, exc, fuel, scn,
                 rd, runs, computeCount, sinceW, seen, tracked, cleaned, waits, stale, owed, bg>>

\* ----------------------------------------------------------------- batch
\* batch(fn): batchDepth++, then fn().
BatchBegin ==
  \E ins \in Instrs :
    /\ ins[1] = "batch"
    /\ batchDepth' = batchDepth + 1
    /\ stack' = Push(Base, [Frame0 EXCEPT
                    !.k = "batch", !.drv = ~ProgMode, !.ph = "body",
                    !.prog = IF ProgMode THEN Scn.subs[ins[2]] ELSE <<>>,
                    !.d0 = batchDepth])
    /\ bg' = IF batchDepth = 0
             THEN [snap |-> runs, dir |-> [e \in EffIds |-> {}], aff |-> {}]
             ELSE bg
    /\ last' = Last("batch", 0, batchDepth, 0)
    /\ FuelNext
    /\ UNCHANGED <<sigVars, subVars, compVars, effVars, schedVars,
                   batchedUpdates, currentEffect, exc, scn,
                   rd, runs, computeCount, sinceW, seen, tracked, cleaned, waits, stale, owed>>

\* throw new Error(), in a function passed to batch or in a body; under a
\* condition that is false ("nothrow") the statement is passed.
Throw ==
  \E ins \in Instrs :
    /\ ins[1] \in {"throw", "nothrow"}
    /\ stack # <<>>
    /\ exc' = IF ins[1] = "throw" THEN "Error" ELSE exc
    /\ stack' = Base
    /\ last' = Last(ins[1], 0, 0, 0)
    /\ FuelNext
    /\ UNCHANGED <<sigVars, subVars, compVars, effVars, schedVars, batchVars,
                   currentEffect, scn,
                   rd, runs, computeCount, sinceW, seen, tracked, cleaned, waits, stale, owed, bg>>

\* for (const update of updates) update(): the scheduler's state after the
\* notify closures of cells cs have run, in order.
RECURSIVE Drain(_, _)
Drain(S, cs) ==
  IF cs = <<>> THEN S
  ELSE Drain(ScheduleAll(S, SignalNotify(subscribers[Head(cs)],
                                         bitfield[Head(cs)])),
             Tail(cs))

\* A drain that is skipped when fn raised (batch without try/finally).
DrainsAtUnlessRaised(depth) ==
  depth = 0 /\ batchedUpdates # <<>> /\ exc = "none"

\* if (batchDepth === 0 && batchedUpdates.size > 0)
DrainsAt(depth) == depth = 0 /\ batchedUpdates # <<>>

\* batch(fn): fn has returned, or has raised, or the driver ends the fn it
\* plays.  The finally block: batchDepth--; at depth 0 with updates queued,
\* run every notify closure and call flushSync().
BatchExit ==
  /\ stack # <<>> /\ Top.k = "batch" /\ Top.ph = "body"
  /\ ~(exc = "none" /\ ~Top.drv /\ Top.pc <= Len(Top.prog))
  /\ LET depth == batchDepth - 1
         drain == DrainsAt(depth)
         raising == {i \in 1..Len(batchedUpdates) :
                       NotifyRaises(subscribers[batchedUpdates[i]])}
         raises == drain /\ raising # {}
         upto == IF raising = {} THEN Len(batchedUpdates)
                 ELSE (CHOOSE i \in raising : \A j \in raising : i <= j) - 1
         S0 == [q |-> updateQueue, sch |-> isScheduled, mt |-> microtasks]
         S1 == IF drain THEN Drain(S0, SubSeq(batchedUpdates, 1, upto)) ELSE S0
         fin == [stack EXCEPT ![Len(stack)].ph = "fin",
                              ![Len(stack)].pend = exc]
     IN  /\ batchDepth' = depth
         /\ batchedUpdates' = IF drain THEN <<>> ELSE batchedUpdates
         /\ microtasks' = S1.mt
         /\ exc' = IF raises THEN "TypeError" ELSE "none"
         /\ IF drain /\ ~raises /\ S1.q # <<>>
            THEN FlushUpdates(fin, S1.q, "sync")
            ELSE /\ updateQueue' = S1.q
                 /\ isScheduled' = S1.sch
                 /\ stack' = IF raises THEN Pop ELSE fin
                 /\ owed' = owed
         /\ last' = Last("batchExit", 0, depth, IF drain THEN 1 ELSE 0)
         /\ waits' = IF drain
                     THEN waits \cup
                          (EffIds \cap UNION {
                             Range(SignalNotify(subscribers[batchedUpdates[i]],
                                                bitfield[batchedUpdates[i]]))
                               : i \in 1..upto})
                     ELSE waits
  /\ UNCHANGED <<sigVars, subVars, compVars, effVars, currentEffect, fuel, scn,
                 rd, runs, computeCount, sinceW, seen, tracked, cleaned, stale, bg>>

\* batch(fn): the finally block is over; batch returns fn's value or
\* rethrows what fn raised (or what the finally block itself raised).
BatchReturn ==
  /\ stack # <<>> /\ Top.k = "batch" /\ Top.ph = "fin"
  /\ exc' = IF exc # "none" THEN exc ELSE Top.pend
  /\ stack' = Pop
  /\ last' = Last("batchReturn", 0, Top.d0, IF Top.pend # "none" THEN 1 ELSE 0)
  /\ UNCHANGED <<sigVars, subVars, compVars, effVars, schedVars, batchVars,
                 currentEffect, fuel, scn,
                 rd, runs, computeCount, sinceW, seen, tracked, cleaned, waits, stale, owed, bg>>

\* The exception reaches the top level: the driver catches it.
DriverCatch ==
  /\ stack = <<>> /\ exc # "none"
  /\ exc' = "none"
  /\ last' = Last("caught", 0, 0, 0)
  /\ UNCHANGED <<sigVars, subVars, compVars, effVars, schedVars, batchVars,
                 currentEffect, stack, fuel, scn,
                 rd, runs, computeCount, sinceW, seen, tracked, cleaned, waits, stale, owed, bg>>

\* -------------------------------------------------- dispose and untrack
\* The dispose function effect(fn) returned: eff._disposed = true; call
\* eff.cleanup if set (it stays set); remove eff from the dependencies that
\* have _removeSubscriber; clear eff.dependencies.  A body that holds no
\* dispose function yet (effect(fn) has not returned) does nothing.
\* last.v: the effect was disposed before; last.x: cleanup was called.
Dispose ==
  \E ins \in Instrs :
    /\ ins[1] = "dispose"
    /\ LET e == ins[2]
       IN  IF disposer[e]
           THEN /\ disposed' = [disposed EXCEPT ![e] = TRUE]
                /\ subscribers' = [p \in Producers |-> Unsubscribed(p, e).s]
                /\ bitfield' = [p \in Producers |-> Unsubscribed(p, e).b]
                /\ dependencies' = [dependencies EXCEPT ![e] = {}]
                /\ cleaned' = IF cleanup[e] THEN [cleaned EXCEPT ![e] = Bump(@)]
                              ELSE cleaned
                /\ last' = Last("dispose", e, IF disposed[e] THEN 1 ELSE 0,
                                IF cleanup[e] THEN 1 ELSE 0)
           ELSE /\ last' = Last("nodispose", e, 0, 0)
                /\ UNCHANGED <<disposed, subVars, dependencies, cleaned>>
    /\ stack' = Base
    /\ FuelNext
    /\ UNCHANGED <<sigVars, compVars, cleanup, isRunning, created, disposer,
                   schedVars, batchVars, currentEffect, exc, scn,
                   rd, runs, computeCount, sinceW, seen, tracked, waits, stale,
                   owed, bg>>

\* An untrack without its finally block.
NotRestored(f) == NoEffect

\* finally { currentEffect = previousEffect }
Restored(f) == f.prev

\* untrack(fn): previousEffect = currentEffect; currentEffect = undefined;
\* then fn().
Untrack ==
  \E ins \in Instrs :
    /\ ins[1] = "untrack"
    /\ currentEffect' = NoEffect
    /\ stack' = Push(Base, [Frame0 EXCEPT !.k = "untrack",
                                           !.prog = Scn.subs[ins[2]],
                                           !.prev = currentEffect])
    /\ last' = Last("untrack", 0, 0, 0)
    /\ FuelNext
    /\ UNCHANGED <<sigVars, subVars, compVars, effVars, schedVars, batchVars,
                   exc, scn,
                   rd, runs, computeCount, sinceW, seen, tracked, cleaned, waits, stale, owed, bg>>

\* untrack(fn): fn has returned or raised; finally currentEffect =
\* previousEffect.  last.x: fn raised.
UntrackReturn ==
  /\ stack # <<>> /\ Top.k = "untrack"
  /\ ~(exc = "none" /\ Top.pc <= Len(Top.prog))
  /\ currentEffect' = Restored(Top)
  /\ stack' = Pop
  /\ last' = Last("untrackReturn", 0, 0, IF exc # "none" THEN 1 ELSE 0)
  /\ UNCHANGED <<sigVars, subVars, compVars, effVars, schedVars, batchVars,
                 exc, fuel, scn,
                 rd, runs, computeCount, sinceW, seen, tracked, cleaned, waits, stale, owed, bg>>

\* eff.fn(): the body has raised.  finally currentEffect = previousEffect;
\* eff._isRunning = false; the exception goes on to the caller.
EffectRaise ==
  /\ exc # "none" /\ stack # <<>> /\ Top.k = "effect"
  /\ currentEffect' = PrevEffect(Top)
  /\ isRunning' = [isRunning EXCEPT ![Top.id] = FALSE]
  /\ stack' = Pop
  /\ last' = Last("raised", Top.id, 0, 0)
  /\ UNCHANGED <<sigVars, subVars, compVars, dependencies, cleanup, disposed,
                 created, disposer, schedVars, batchVars, exc, fuel, scn,
                 rd, runs, computeCount, sinceW, seen, tracked, cleaned, waits, stale, owed, bg>>

\* flushUpdates(): an effect.fn() raised.  There is no try: the loop ends
\* there and the exception goes on to the caller.  last.x: the number of
\* effects of effectsToRun the loop had not reached and that are not in
\* updateQueue.
FlushAbort ==
  /\ exc # "none" /\ stack # <<>> /\ Top.k = "flush"
  /\ stack' = Pop
  /\ last' = Last("flushAborted", 0, 0,
                  Cardinality({Top.q[i] : i \in Top.pc..Len(Top.q)}
                                \ Range(updateQueue)))
  /\ UNCHANGED <<sigVars, subVars, compVars, effVars, schedVars, batchVars,
                 currentEffect, exc, fuel, scn,
                 rd, runs, computeCount, sinceW, seen, tracked, cleaned, waits, stale, owed, bg>>

\* The setup script ends at a statement that raised.
ScriptAbort ==
  /\ exc # "none" /\ stack # <<>> /\ Top.k = "script"
  /\ stack' = Pop
  /\ last' = Last("aborted", 0, 0, 0)
  /\ UNCHANGED <<sigVars, subVars, compVars, effVars, schedVars, batchVars,
                 currentEffect, exc, fuel, scn,
                 rd, runs, computeCount, sinceW, seen, tracked, cleaned, waits, stale, owed, bg>>

\* --------------------------------------------------------- specification
Next ==
  \/ SignalGet
  \/ SignalPeek
  \/ SignalSet
  \/ ComputedGet
  \/ ComputeReturn
  \/ CreateEffect
  \/ ReturnCleanup
  \/ EffectReturn
  \/ ScriptDone
  \/ FlushSync
  \/ Microtask
  \/ FlushStep
  \/ FlushDone
  \/ BatchBegin
  \/ Throw
  \/ BatchExit
  \/ BatchReturn
  \/ DriverCatch

Spec == Init /\ [][Next]_vars

\* The lifecycle scenarios: disposal, conditional dependencies, effects
\* that write what they read, peek, untrack, bodies that raise.
InitLife == scn \in LifeScenarios /\ Start

NextLife ==
  \/ SignalGet
  \/ SignalPeek
  \/ SignalSet
  \/ ComputedGet
  \/ ComputeReturn
  \/ CreateEffect
  \/ ReturnCleanup
  \/ EffectReturn
  \/ ScriptDone
  \/ Microtask
  \/ FlushStep
  \/ FlushDone
  \/ BatchBegin
  \/ BatchExit
  \/ BatchReturn
  \/ Throw
  \/ DriverCatch
  \/ Dispose
  \/ Untrack
  \/ UntrackReturn
  \/ EffectRaise
  \/ FlushAbort
  \/ ScriptAbort
  \/ ComputeRaise

SpecLife == InitLife /\ [][NextLife]_vars

\* ======================================================================
\* Properties
\* ======================================================================

\* ------------------------------------------------------------------- C1
\* C1: a write of a value equal (Object.is) to the cell's current value
\* changes nothing: the value and the version stay, no task enters the
\* pending set, no microtask is queued and no closure enters the batch
\* queue, whether or not a batch is active and whatever the subscribers.
C1_EqualWriteIsNoOp ==
  [][\A c \in Cells :
       (last'.op = "set" /\ last'.p = c /\ last'.v = value[c])
         => /\ value' = value /\ version' = version
            /\ updateQueue' = updateQueue /\ isScheduled' = isScheduled
            /\ microtasks' = microtasks
            /\ batchedUpdates' = batchedUpdates
            /\ subscribers' = subscribers]_vars

\* An equal write to a cell that has subscribers and was written before,
\* inside a batch.
C1_Witness ==
  /\ last.op = "set" /\ last.x = 0 /\ last.p = A
  /\ version[A] > 0 /\ subscribers[A].tier = "array"
  /\ batchDepth > 0

\* ------------------------------------------------------------------- C2
\* A flush pass is over: every task of its snapshot has been visited.
PassOver == stack # <<>> /\ Top.k = "flush" /\ Top.pc > Len(Top.q)

\* C2: after one or more non-equal writes outside a batch and then a
\* flush pass, every task that was subscribed to a written cell has run
\* its body exactly once in that pass, and no task ran twice, whichever
\* storage tier holds the subscribers and however often it was scheduled.
C2_OneRunPerFlush ==
  PassOver =>
    /\ \A e \in EffIds : Count(Top.ran, e) <= 1
    /\ \A e \in Top.owe : ~disposed[e] => Count(Top.ran, e) = 1

\* A pass over more than 32 subscribers of a cell written twice.
C2_Witness ==
  /\ PassOver
  /\ subscribers[A].tier = "set"
  /\ Cardinality(Top.owe) > BITFIELD_THRESHOLD
  /\ version[A] >= 2
  /\ \A e \in Top.owe : Count(Top.ran, e) = 1

\* ------------------------------------------------------------------- C3
\* What fn of a derived value returns on the cells' current values.
RECURSIVE Truth(_)
Truth(d) ==
  IF d = D1
  THEN FnResult(D1, [p \in Producers |-> IF p \in Cells THEN value[p] ELSE UNSET])
  ELSE FnResult(D2, [NoObs EXCEPT ![D1] = Truth(D1)])

\* C3: a read (value or peek) of a derived value returns fn applied to
\* the current values of its dependencies, also right after a write and
\* before any flush.
C3_ReadIsUpToDate ==
  (last.op \in {"get", "peek"} /\ last.p \in Comps) => last.v = Truth(last.p)

\* ------------------------------------------------------------------- C4
\* C4: between two writes to its dependencies fn of a derived value
\* executes at most once, however often the value is read, and a read
\* (value or peek) that finds the value not dirty and the cache set
\* returns the cache without executing fn.
C4_CachedReadDoesNotRecompute ==
  /\ \A d \in Comps : sinceW[d] <= 1
  /\ (last.op \in {"get", "peek"} /\ last.p \in Comps /\ rd.clean)
       => /\ ~rd.computed
          /\ rd.v = cache[rd.p]
          /\ computeCount[rd.p] >= 1

\* ------------------------------------------------------------------- C5
\* C5: a derived value was computed before; after one or more non-equal
\* writes to a cell it reads, with no read of it in between, one read
\* executes fn (exactly once: a read calls compute at most once).
C5_OneRecomputeAfterWrites ==
  (last.op \in {"get", "peek"} /\ last.p \in Comps /\ rd.p = last.p
     /\ rd.had /\ rd.writes >= 1)
    => rd.computed

\* ------------------------------------------------------------------- C6
\* The outermost batch has just returned.
OutermostReturned == last.op = "batchReturn" /\ last.v = 0

\* C6: a task reads cells A, B and C directly and a batch writes non-equal
\* values to all three: when batch returns the body has run exactly once
\* for that batch, the run is over, and it observed the final values.
C6_OneRunPerBatch ==
  OutermostReturned =>
    \A e \in EffIds :
      (Cells \subseteq bg.dir[e] /\ ~disposed[e])
        => /\ runs[e] = bg.snap[e] + 1
           /\ ~isRunning[e]
           /\ \A c \in Cells : seen[e][c] = value[c]

\* A batch that wrote A, B and C has returned and the task has run once.
C6_Witness ==
  /\ OutermostReturned /\ last.x = 0
  /\ bg.dir[1] = Cells
  /\ runs[1] = bg.snap[1] + 1
  /\ \A c \in Cells : value[c] # 0 /\ seen[1][c] = value[c]

\* ------------------------------------------------------------------- C7
\* C7: when the outermost batch returns, every task affected by a write
\* made inside the batch has run, also a task that read the written cell
\* only through a derived value or a chain of derived values.
C7_AffectedTasksRanAtBatchReturn ==
  OutermostReturned =>
    \A e \in bg.aff : ~disposed[e] => runs[e] > bg.snap[e]

\* ------------------------------------------------------------------- C8
\* C8: when flushSync returns the pending set is empty, tasks scheduled
\* by the runs of the flush itself included.
C8_FlushSyncDrains ==
  last.op = "flushSyncReturn" => updateQueue = <<>>

\* ------------------------------------------------------------------- C9
\* C9: batches nest.  A write inside a batch schedules no task; while the
\* depth stays above zero no queued notification is delivered; the exit
\* of an inner batch drains nothing and starts no flush; the exit of the
\* outermost batch empties the queue and starts the flush with every
\* subscriber of the cells queued.
C9_BatchesNest ==
  [][/\ (last'.op = "set" /\ batchDepth > 0)
          => /\ updateQueue' = updateQueue
             /\ isScheduled' = isScheduled
             /\ microtasks' = microtasks
     /\ (batchDepth > 0 /\ batchDepth' > 0)
          => /\ Len(batchedUpdates') >= Len(batchedUpdates)
             /\ SubSeq(batchedUpdates', 1, Len(batchedUpdates)) = batchedUpdates
     /\ (last'.op = "batchExit" /\ batchDepth' > 0)
          => /\ batchedUpdates' = batchedUpdates
             /\ updateQueue' = updateQueue
             /\ microtasks' = microtasks
             /\ Len(stack') = Len(stack)
     /\ (last'.op = "batchExit" /\ batchDepth' = 0 /\ batchedUpdates # <<>>)
          => /\ batchedUpdates' = <<>>
             /\ stack'[Len(stack')].k = "flush"
             /\ \A i \in 1..Len(batchedUpdates) :
                  SubscribersOf(subscribers[batchedUpdates[i]])
                    \subseteq Range(stack'[Len(stack')].q)]_vars

\* An inner batch has exited with notifications queued: they are still
\* queued and the outer batch is still open.
C9_Witness ==
  /\ last.op = "batchExit" /\ last.x = 0
  /\ batchDepth = 1 /\ batchedUpdates # <<>>
  /\ updateQueue = <<>>

\* ------------------------------------------------------------------ C10
\* C10: the function passed to batch raised: when batch returns the depth
\* is what it was before the call and the error propagates; at the
\* outermost exit the notifications queued before the failure have been
\* drained and the subscribers of the cells written have run.
C10_BatchRaises ==
  (last.op = "batchReturn" /\ last.x = 1)
    => /\ batchDepth = last.v
       /\ exc = "Error"
       /\ last.v = 0
            => /\ batchedUpdates = <<>>
               /\ \A e \in EffIds :
                    (bg.dir[e] # {} /\ ~disposed[e]) => runs[e] > bg.snap[e]

\* The outermost batch wrote a cell, then raised, and has returned: the
\* subscribers have run.
C10_Witness ==
  /\ OutermostReturned /\ last.x = 1
  /\ exc = "Error" /\ batchDepth = 0
  /\ \E e \in EffIds : bg.dir[e] # {} /\ runs[e] > bg.snap[e]

\* ------------------------------------------------------------------ C11
\* C11: once an effect is disposed its body never starts again, whether
\* a later write reaches it or a pending set that held it is flushed.
C11_DisposedNeverRuns ==
  [][\A e \in EffIds : disposed[e] => runs'[e] = runs[e]]_vars

\* A flush pass has called the fn of a disposed effect, and the body did
\* not run: the effect has run only when it was created.
C11_Witness ==
  /\ last.op = "run" /\ disposed[last.p]
  /\ runs[last.p] = 1
  /\ stack # <<>> /\ Top.k = "flush"

\* ------------------------------------------------------------------ C12
\* C12: disposal is idempotent: a call of the disposer of an effect that
\* is already disposed does not call the cleanup function again.
C12_DisposeIdempotent ==
  (last.op = "dispose" /\ last.v = 1) => last.x = 0

\* ------------------------------------------------------------------ C13
\* C13: a disposed effect whose body is not running is in no producer's
\* subscriber collection.
C13_DisposedSubscribesNothing ==
  \A e \in EffIds :
    (disposed[e] /\ ~isRunning[e])
      => \A p \in Producers : e \notin SubscribersOf(subscribers[p])


\* ------------------------------------------------------------------ C14
\* The body of effect e reads one of two cells, chosen by a third cell.
CondOnCells(e) ==
  \E i \in 1..Len(Scn.body[e]) :
    /\ Scn.body[e][i][1] = "getby"
    /\ Scn.body[e][i][3][1] \in Cells /\ Scn.body[e][i][3][2] \in Cells

\* C14: an effect that reads a or b depending on c is scheduled by a
\* write outside a batch exactly when the written cell is one it read in
\* its most recent run: after c flips and the effect has re-run, a write
\* to the branch it left does not schedule it and a write to the branch
\* it took does.
C14_BranchSwitch ==
  [][\A e \in EffIds :
       (/\ CondOnCells(e) /\ runs[e] >= 1 /\ ~isRunning[e]
        /\ last'.op = "set" /\ last'.x = 1 /\ batchDepth = 0)
         => (e \in Range(updateQueue')
               <=> (e \in Range(updateQueue) \/ last'.p \in tracked[e]))]_vars

\* c has flipped, effect 1 has re-run and read b, and a write that changed
\* a has left it unscheduled.
C14_Witness ==
  /\ scn = "cond" /\ value[C] = 1 /\ tracked[1] = {C, B} /\ ~isRunning[1]
  /\ runs[1] = 2
  /\ last.op = "set" /\ last.p = A /\ last.x = 1
  /\ 1 \notin Range(updateQueue)


\* ------------------------------------------------------------------ C15
\* C15: when a run of an effect completes, the effect is a subscriber of
\* a producer, cell or derived value, exactly when it read that producer
\* in that run.
C15_EdgesAreLastReads ==
  (last.op = "ran" /\ ~disposed[last.p])
    => \A p \in Producers :
         last.p \in SubscribersOf(subscribers[p]) <=> p \in tracked[last.p]


\* ------------------------------------------------------------------ C16
\* C16: the body of an effect never starts while that effect's running
\* flag is set: a write the body makes to a cell it depends on, directly
\* or inside a batch it opens, does not re-enter it.
C16_NoReentry ==
  [][\A e \in EffIds : isRunning[e] => runs'[e] = runs[e]]_vars

\* The flush at the exit of the batch opened by the body of effect 2 has
\* reached effect 2, which is running, and has passed over it.
C16_Witness ==
  /\ scn = "self" /\ last.op = "skip" /\ last.p = 2 /\ isRunning[2]
  /\ \E i \in 1..Len(stack) : stack[i].k = "batch"


\* ------------------------------------------------------------------ C17
\* The tier the specification gives a collection of n subscribers.
TierFor(n) ==
  IF n = 0 THEN "none"
  ELSE IF n = 1 THEN "single"
  ELSE IF n <= BITFIELD_THRESHOLD THEN "array" ELSE "set"

\* The number of places of collection s that hold a subscriber.
Occupied(s) ==
  IF s.tier = "none" THEN 0
  ELSE IF s.tier = "single" THEN 1
  ELSE IF s.tier = "array" THEN Cardinality({i \in Slots : s.slots[i] # NoEffect})
  ELSE Len(s.set)

\* Nothing but additions of distinct subscribers has happened so far: no
\* effect has re-run, no production function has run twice, and no
\* subscriber is held twice.
AddsOnly ==
  /\ \A e \in EffIds : runs[e] <= 1
  /\ \A d \in Comps : computeCount[d] <= 1
  /\ \A p \in Producers :
       Occupied(subscribers[p]) = Cardinality(SubscribersOf(subscribers[p]))

\* C17: while distinct subscribers are only added, the collection of a
\* cell and of a derived value is in the empty tier at 0 subscribers, the
\* single tier at 1, the slot array tier from 2 through 32 and the Set
\* tier at 33.
C17_TierByCount ==
  AddsOnly
    => \A p \in Producers :
         subscribers[p].tier = TierFor(Cardinality(SubscribersOf(subscribers[p])))


\* ------------------------------------------------------------------ C18
\* C18: removal from a cell's collection mirrors addition: when a re-run
\* or a disposal has removed subscribers and none is held twice, a cell
\* left with one subscriber is in the single tier and a cell left with
\* none is in the empty tier.
C18_RemoveSymmetric ==
  \A c \in Cells :
    (/\ last.op \in {"run", "dispose"}
     /\ Occupied(subscribers[c]) = Cardinality(SubscribersOf(subscribers[c])))
      => /\ Cardinality(SubscribersOf(subscribers[c])) = 1
              => subscribers[c].tier = "single"
         /\ Cardinality(SubscribersOf(subscribers[c])) = 0
              => subscribers[c].tier = "none"


\* ------------------------------------------------------------------ C19
\* The body of effect e reads its producers through peek() only.
PeeksOnly(e) ==
  /\ Scn.body[e] # <<>>
  /\ \A i \in 1..Len(Scn.body[e]) : Scn.body[e][i][1] = "peek"

\* The step is a call of peek(): of a cell, of a derived value that returns
\* its cache, or of a derived value that starts its production function.
PeekStep ==
  \/ last'.op = "peek"
  \/ last'.op = "compute" /\ stack'[Len(stack')].m = "peek"

\* C19: peek() of a cell or of a derived value changes no subscriber
\* collection and no effect's dependency set, whatever effect is running;
\* an effect that only peeks is in no collection and no write schedules it.
C19_PeekNeverTracks ==
  [][/\ PeekStep => /\ subscribers' = subscribers
                    /\ bitfield' = bitfield
                    /\ \A e \in EffIds : dependencies'[e] = dependencies[e]
     /\ \A e \in EffIds :
          PeeksOnly(e) => /\ e \notin Range(updateQueue')
                          /\ \A p \in Producers :
                               e \notin SubscribersOf(subscribers'[p])]_vars

\* The effect peeked at a and at step1, which ran its production function;
\* a write has changed a and scheduled the derived value's own effect only.
C19_Witness ==
  /\ scn = "peek" /\ runs[1] = 1 /\ ~isRunning[1]
  /\ cache[D1] # UNSET
  /\ last.op = "set" /\ last.p = A /\ last.x = 1
  /\ CE(D1) \in Range(updateQueue) /\ 1 \notin Range(updateQueue)


\* ------------------------------------------------------------------ C20
\* The producers the body of effect e reads through .value itself, and
\* those it reads inside the functions it passes to untrack.
BodyReads(e) ==
  {Scn.body[e][i][2] :
     i \in {j \in 1..Len(Scn.body[e]) : Scn.body[e][j][1] = "get"}}
UntrackReads(e) ==
  UNION {{Scn.subs[k][i][2] :
            i \in {j \in 1..Len(Scn.subs[k]) : Scn.subs[k][j][1] = "get"}} :
         k \in {Scn.body[e][i][2] :
                  i \in {j \in 1..Len(Scn.body[e]) :
                           Scn.body[e][j][1] = "untrack"}}}
UntrackedOnly(e) == UntrackReads(e) \ BodyReads(e)

\* C20: a producer an effect reads only inside untrack(fn) never holds
\* the effect as a subscriber and is never one of its dependencies, and a
\* write to such a cell does not schedule the effect; on entry to untrack
\* no effect is current, and when untrack returns or fn raises the current
\* effect is the effect whose body made the call.
C20_UntrackSuspends ==
  [][/\ \A e \in EffIds : \A p \in UntrackedOnly(e) :
          /\ e \notin SubscribersOf(subscribers'[p])
          /\ p \notin dependencies'[e]
          /\ (last'.op = "set" /\ last'.p = p /\ e \in Range(updateQueue'))
               => e \in Range(updateQueue)
     /\ last'.op = "untrack" => currentEffect' = NoEffect
     /\ last'.op = "untrackReturn" => currentEffect' = Encl(stack')]_vars

\* The fn effect 2 passed to untrack has raised in a re-run, after a write
\* to b, the cell it reads: effect 2 is the current effect again.
C20_Witness ==
  /\ scn = "untrack" /\ last.op = "untrackReturn" /\ last.x = 1
  /\ currentEffect = 2 /\ runs[2] = 2 /\ version[B] >= 1
  /\ B \notin dependencies[2]

\* ------------------------------------------------------------------ C21
\* The body of effect e is executing, at some depth of the call stack.
OnStack(e) ==
  \E i \in 1..Len(stack) : stack[i].k = "effect" /\ stack[i].id = e

\* C21: currentEffect is saved and restored around every run of an effect
\* and every compute(): at every moment it is the effect whose body, or
\* the derived value whose fn, is the innermost one executing outside
\* untrack, so that when a run or a compute() ends, by return or by raise,
\* at any nesting, it is again what it was before; and _isRunning is set
\* exactly while the body of the effect executes.
C21_SlotRestored ==
  /\ currentEffect = Encl(stack)
  /\ \A e \in EffIds : isRunning[e] <=> OnStack(e)

\* fn of step1 raised inside the re-run of effect 3 inside a flush: the
\* current effect is effect 3 again.
C21_Witness ==
  /\ scn = "fail" /\ last.op = "computeRaised" /\ exc = "Error"
  /\ currentEffect = 3 /\ isRunning[3] /\ runs[3] = 2
  /\ stack[1].k = "flush"

\* ------------------------------------------------------------------ C22
\* C22: when the body of an effect raises during a flush, no effect that
\* was pending in that flush is dropped: the effects the loop had not
\* reached are still pending when the flush ends.
C22_FlushKeepsPending ==
  last.op = "flushAborted" => last.x = 0

\* ------------------------------------------------------------------ C23
\* C23: when fn of a derived value raises, the exception goes on to the
\* reader and the derived value stays dirty with its cache untouched; the
\* cache and the dirty flag change only when fn returns, and a read
\* returns the cache without calling fn only if the value is not dirty:
\* the read after a failure executes fn again.
C23_FailedComputeRetried ==
  [][/\ last'.op = "computeRaised"
          => /\ exc' # "none" /\ stack' = Pop
             /\ dirty'[last'.p] /\ cache' = cache
     /\ \A d \in Comps :
          /\ (cache'[d] # cache[d] \/ (dirty[d] /\ ~dirty'[d]))
               => (last'.op \in {"get", "peek"} /\ last'.p = d /\ last'.x = 1)
          /\ (last'.op \in {"get", "peek"} /\ last'.p = d /\ last'.x = 0)
               => ~dirty[d] /\ cache[d] # UNSET]_vars

\* fn of step1 raised in the re-run of effect 3 after the only write to a,
\* and the next read of step1 has called fn again.
C23_Witness ==
  /\ scn = "fail" /\ version[A] = 1 /\ value[A] = 1
  /\ computeCount[D1] = 3 /\ last.op = "compute" /\ last.p = D1
  /\ dirty[D1] /\ cache[D1] = 0

\* ------------------------------------------------------------------ C24
\* C24: a cleanup function returned by a run of an effect is called once
\* at most, before the body of the next run or at disposal, and never
\* again after that.
C24_CleanupOnce ==
  \A e \in EffIds : cleaned[e] <= 1

\* ------------------------------------------------------------------ C25
\* The run that effect(fn) makes of effect e is executing.
FirstRunOnStack(e) ==
  \E i \in 1..Len(stack) :
    stack[i].k = "effect" /\ stack[i].id = e /\ stack[i].first

\* C25: effect(fn) starts the body in the step of the call, whatever the
\* batch depth and the current effect; while that run executes the body
\* has started exactly once; and the dispose function is returned by the
\* step that ends that run.
C25_CreateRunsOnce ==
  [][\A e \in EffIds :
       /\ (created'[e] /\ ~created[e])
            => /\ runs[e] = 0 /\ runs'[e] = 1 /\ isRunning'[e]
               /\ currentEffect' = e
       /\ FirstRunOnStack(e) => runs[e] = 1 /\ ~disposer[e]
       /\ (disposer'[e] /\ ~disposer[e])
            => /\ runs'[e] = 1 /\ FirstRunOnStack(e)
               /\ last'.op = "ran" /\ last'.p = e]_vars

\* effect(fn) has returned the dispose function of effect 3 inside a batch
\* that holds a deferred notification; effect 2 was created by the body of
\* effect 1.
C25_Witness ==
  /\ scn = "nest" /\ last.op = "ran" /\ last.p = 3
  /\ batchDepth = 1 /\ batchedUpdates # <<>>
  /\ disposer[3] /\ runs[3] = 1
  /\ disposer[2] /\ runs[2] = 1 /\ tracked[1] = {C}

\* ------------------------------------------------------------------ C26
\* The scheduler is quiescent: nothing executes, updateQueue is empty and
\* no flushUpdates callback waits in the microtask queue.
Quiescent ==
  /\ stack = <<>> /\ exc = "none"
  /\ updateQueue = <<>> /\ microtasks = 0

\* C26: once the scheduler is quiescent after any sequence of writes, the
\* last run of an effect that reads a cell through derived values saw, for
\* each derived value it read, what the chain of production functions
\* yields on the cell's present value.
C26_ChainSettles ==
  Quiescent
    => \A e \in EffIds : \A d \in Comps :
         seen[e][d] # UNSET => seen[e][d] = Truth(d)

\* The cell has been written twice and the effect that reads step2 has
\* re-run on the last value.
C26_Witness ==
  /\ scn = "chain" /\ Quiescent /\ version[A] >= 2
  /\ runs[1] >= 2 /\ seen[1][D2] = value[A] * 2 + 10

\* ------------------------------------------------------------------ C27
\* C27: a write to a cell and the run of the deferred notifications at
\* the exit of the outermost batch never raise inside the core, whatever
\* was subscribed, re-run or disposed in between.
C27_NotifyNeverRaises ==
  exc # "TypeError"

\* ------------------------------------------------------------------ C28
\* C28: deferred notifications are deduplicated by cell: whatever the
\* number of non-equal writes to a cell during a batch, batchedUpdates
\* holds one notification for that cell at most.
C28_OneEntryPerCell ==
  \A c \in Cells : Count(batchedUpdates, c) <= 1

\* ------------------------------------------------------------------ C29
\* The cascade scenario, in which no body and no production function
\* writes a cell, under the scheduling of the host: a function that was
\* called runs to its end, and a queued microtask runs once the call stack
\* is empty.
InitFair == scn = "cascade" /\ Start

NextFair ==
  \/ SignalGet
  \/ SignalSet
  \/ ComputedGet
  \/ ComputeReturn
  \/ CreateEffect
  \/ EffectReturn
  \/ ScriptDone
  \/ Microtask
  \/ FlushStep
  \/ FlushDone

SpecFair == InitFair /\ [][NextFair]_vars /\ WF_vars(NextFair)

\* C29: after the finitely many writes of the driver the flush cycles
\* reach a fixed point: from some moment on updateQueue is empty, no flush
\* is scheduled and none waits in the microtask queue.
C29_FlushesSettle ==
  <>[](updateQueue = <<>> /\ ~isScheduled /\ microtasks = 0)

\* The fixed point after a cascade: the driver has made its last write,
\* three flushes have carried it down the chain to the effect, and nothing
\* is pending.
C29_Witness ==
  /\ scn = "cascade" /\ fuel = 0 /\ Quiescent /\ ~isScheduled
  /\ version[A] >= 1 /\ runs[1] >= 2
  /\ last.op = "flushed"

\* ------------------------------------------------------------------ C30
\* C30: a write runs no body: it starts no run and calls nothing.  Outside
\* a batch a non-equal write puts the cell's subscribers in updateQueue and
\* leaves a flush scheduled in the microtask queue; inside a batch it
\* leaves updateQueue and the microtask queue as they are, and so does the
\* exit of an inner batch.  A body starts only in the loop of a flush or
\* in effect(fn).
C30_WriteOnlySchedules ==
  [][/\ last'.op = "set"
          => /\ runs' = runs /\ Len(stack') = Len(stack)
             /\ (last'.x = 1 /\ batchDepth = 0)
                  => /\ SubscribersOf(subscribers[last'.p])
                          \subseteq Range(updateQueue')
                     /\ SubscribersOf(subscribers[last'.p]) # {}
                          => isScheduled' /\ microtasks' >= 1
             /\ batchDepth > 0
                  => updateQueue' = updateQueue /\ microtasks' = microtasks
     /\ (last'.op = "batchExit" /\ batchDepth' > 0)
          => updateQueue' = updateQueue /\ microtasks' = microtasks
     /\ \A e \in EffIds :
          runs'[e] # runs[e] => last'.op \in {"run", "effect"}]_vars

\* A write outside a batch has changed c: both effects that read c are
\* pending, a flush waits in the microtask queue and neither has re-run.
C30_Witness ==
  /\ scn = "cond" /\ last.op = "set" /\ last.p = C /\ last.x = 1
  /\ batchDepth = 0 /\ Range(updateQueue) = {1, 2}
  /\ isScheduled /\ microtasks = 1
  /\ runs[1] = 1 /\ runs[2] = 1

\* ------------------------------------------------------------------ C31
\* C31: invalidation of a derived value is lazy.  The fn of its internal
\* effect, run by a flush, only sets dirty and hands the derived value's
\* subscribers to scheduleUpdate: it caches nothing, computes nothing and
\* calls nothing.  compute() is entered only by the step of a .value read
\* or a peek of that derived value, so no call of compute() has
\* flushUpdates as its caller, and the cache changes only when such a read
\* returns.
ComputeCalledByFlush ==
  \E i \in 2..Len(stack) : stack[i].k = "compute" /\ stack[i - 1].k = "flush"
C31_LazyInvalidation ==
  [][/\ \A d \in Comps :
          /\ computeCount'[d] # computeCount[d]
               => last'.op = "compute" /\ last'.p = d
          /\ cache'[d] # cache[d]
               => last'.op \in {"get", "peek"} /\ last'.p = d
     /\ last'.op = "invalidate"
          => /\ dirty' = [dirty EXCEPT ![last'.p] = TRUE]
             /\ cache' = cache /\ computeCount' = computeCount
             /\ Len(stack') = Len(stack)
             /\ Range(updateQueue')
                  = Range(updateQueue) \cup SubscribersOf(subscribers[last'.p])
     /\ ~ComputeCalledByFlush']_vars

\* A flush has invalidated step1 after a write of base: step1 is dirty with
\* its old value still cached, it was computed once, and the internal effect
\* of step2, its subscriber, is pending.
C31_Witness ==
  /\ scn = "chain" /\ last.op = "invalidate" /\ last.p = D1
  /\ version[A] = 1 /\ dirty[D1] /\ cache[D1] = 0 /\ computeCount[D1] = 1
  /\ CE(D2) \in Range(updateQueue)

\* ------------------------------------------------------------------ C32
\* C32: a subscriber collection becomes the Set only in an addSubscriber
\* that finds the slot array full (every bit of the bitfield set), the Set it
\* becomes holds more than BITFIELD_THRESHOLD distinct subscribers, and a
\* collection that is the Set stays the Set.
C32_SetTierPast32 ==
  [][\A p \in Producers :
       /\ (subscribers'[p].tier = "set" /\ subscribers[p].tier # "set")
            => /\ subscribers[p].tier = "array" /\ bitfield[p] = Slots
               /\ last'.op \in {"get", "compute"} /\ last'.p = p
               /\ Cardinality(SubscribersOf(subscribers'[p]))
                    > BITFIELD_THRESHOLD
       /\ subscribers[p].tier = "set" => subscribers'[p].tier = "set"]_vars

\* ------------------------------------------------------------------ C33
\* C33: outside a computation of derived value d, the internal effect of d
\* is held by exactly the producers d's function read in its most recent
\* computation; so a write to a cell enters that effect in the pending set
\* only if the most recent computation read the cell.
Computing(d) ==
  \E i \in 1..Len(stack) : stack[i].k = "compute" /\ stack[i].id = d
C33_ComputedTracksLastReads ==
  [][\A d \in Comps :
       /\ (computedEffect'[d] /\ ~Computing(d)')
            => \A p \in Producers :
                 CE(d) \in SubscribersOf(subscribers'[p])
                   <=> p \in dependencies'[CE(d)]
       /\ (last'.op = "set"
           /\ CE(d) \in Range(updateQueue') \ Range(updateQueue))
            => last'.p \in dependencies[CE(d)]]_vars

\* ------------------------------------------------------------------ C34
\* C34: an effect takes at most one entry of a producer's subscriber
\* collection, however often its body reads the producer and however often
\* it has re-run.
Entries(s, e) ==
  IF s.tier = "single" THEN (IF s.one = e THEN 1 ELSE 0)
  ELSE IF s.tier = "array" THEN Cardinality(HoldingSlots(s, e))
  ELSE IF s.tier = "set" THEN Count(s.set, e)
  ELSE 0
C34_OneEntryPerTask ==
  \A p \in Producers : \A e \in EffIds : Entries(subscribers[p], e) <= 1

\* ------------------------------------------------------------------ C35
\* C35: while a producer's subscribers are the slot array, bit i of its
\* bitfield is set exactly if slot i holds an effect, for every i in 0..31;
\* while they are undefined, the inline single subscriber or the Set, the
\* bitfield is 0.
C35_BitfieldMatchesSlots ==
  \A p \in Producers :
    IF subscribers[p].tier = "array"
    THEN bitfield[p] = {i \in Slots : subscribers[p].slots[i] # NoEffect}
    ELSE bitfield[p] = {}

\* A disposal has emptied slot 0 of a's array and cleared bit 0; slots 1,
\* 2 and 3 are still taken (by the second read of effect 1, by the internal
\* effect of step1 and by effect 3).
C35_Witness ==
  /\ scn = "life" /\ last.op = "dispose" /\ last.p = 1
  /\ subscribers[A].tier = "array" /\ bitfield[A] = {1, 2, 3}
  /\ subscribers[A].slots[0] = NoEffect /\ subscribers[A].slots[1] = 1
  /\ subscribers[A].slots[2] = CE(D1) /\ subscribers[A].slots[3] = 3

\* ------------------------------------------------------------------ C36
\* C36: no wakeup is lost.  Whenever updateQueue holds an effect and no
\* call of flushUpdates is on the call stack, a flushUpdates callback waits
\* in the microtask queue.
FlushOnStack == \E i \in 1..Len(stack) : stack[i].k = "flush"
C36_NoLostWakeup ==
  (updateQueue # <<>> /\ ~FlushOnStack) => microtasks >= 1

\* flushSync() has returned from a pass that invalidated step1: the internal
\* effect of step2 is pending, isScheduled is set again and callbacks wait
\* (the one queued by the write, the one queued during the pass and the one
\* queued at its end).
C36_Witness ==
  /\ scn = "chain" /\ last.op = "flushSyncReturn" /\ stack = <<>>
  /\ updateQueue = <<CE(D2)>> /\ isScheduled /\ microtasks = 3

\* ------------------------------------------------------------------ C37
\* C37: no notification is dropped.  Once the call stack and the microtask
\* queue are empty and nothing is pending, nothing more runs until the next
\* write; so by then every effect that was handed to scheduleUpdate and is
\* not disposed has started its body since, also one that a flush took out
\* of the pending set while its _isRunning flag was set.
C37_NotifiedTasksRun ==
  Quiescent => \A e \in waits : disposed[e]

\* ------------------------------------------------------------------ C38
\* C38: runs are glitch-free.  When a run of an effect has read a derived
\* value and every cell it is computed from, the value it saw of the
\* derived value is the one computed from the values it saw of those cells.
RECURSIVE ValueFrom(_, _)
ValueFrom(d, obs) ==
  IF d = D1 THEN FnResult(D1, obs)
  ELSE FnResult(D2, [obs EXCEPT ![D1] = ValueFrom(D1, obs)])
C38_GlitchFree ==
  \A e \in EffIds : \A d \in Comps :
    (seen[e][d] # UNSET /\ \A c \in Sources(d) : seen[e][c] # UNSET)
      => seen[e][d] = ValueFrom(d, seen[e])

\* ------------------------------------------------------------------ C39
\* Some call of batch(fn) is on the call stack, in fn or in the finally
\* block.
BatchOnStack == \E i \in 1..Len(stack) : stack[i].k = "batch"

\* The calls of batch(fn) on the call stack whose fn has not ended.
BatchBodies == {i \in 1..Len(stack) : stack[i].k = "batch" /\ stack[i].ph = "body"}

\* The finally block of a batch call is at its last statement or has just
\* run batchDepth--: no code that can call isBatching() is running.
BatchFinallyOnTop == stack # <<>> /\ Top.k = "batch" /\ Top.ph = "fin"

\* C39 as stated: the batch depth counter is never negative, isBatching()
\* is true exactly while at least one batch call is on the call stack, and
\* with no batch call on the stack the counter is 0 and the batch queue is
\* empty.
C39_BatchingWhileOnStack ==
  /\ batchDepth >= 0
  /\ ~BatchFinallyOnTop => (IsBatching <=> BatchOnStack)
  /\ ~BatchOnStack => batchDepth = 0 /\ batchedUpdates = <<>>

\* C39, amended: the batch depth counter is never negative and equals the
\* number of batch calls on the call stack whose fn has not ended, so
\* isBatching() is true exactly while the fn of some batch call is
\* executing; the counter is 0 and the batch queue empty whenever no such
\* call is on the stack, which includes the drain and the flush that the
\* outermost batch call runs in its finally block, whether fn raised or
\* not.
C39_BatchDepthCountsBodies ==
  /\ batchDepth >= 0
  /\ batchDepth = Cardinality(BatchBodies)
  /\ IsBatching <=> BatchBodies # {}
  /\ batchDepth = 0 => batchedUpdates = <<>>
  /\ ~BatchOnStack => batchDepth = 0 /\ batchedUpdates = <<>>

\* The fn of the outer batch call raised after a write; its finally block
\* has brought the counter to 0, drained the queue and called flushSync,
\* and the flush is running the effect: the batch call is on the stack and
\* isBatching() is false.
C39_Witness ==
  /\ scn = "counter" /\ last.op = "run" /\ Len(stack) = 3
  /\ stack[1].k = "batch" /\ stack[1].ph = "fin" /\ stack[1].pend = "Error"
  /\ stack[2].k = "flush" /\ stack[3].k = "effect"
  /\ batchDepth = 0 /\ ~IsBatching /\ batchedUpdates = <<>>

\* ------------------------------------------------------------------ C40
\* The step is the start of a pass: flushUpdates has been called and has
\* reached its loop.
PassStarts ==
  /\ Len(stack') = Len(stack) + 1
  /\ stack'[Len(stack')].k = "flush"

\* The step is the end of a pass whose loop went through effectsToRun.
PassEnds == last'.op \in {"flushed", "flushSyncReturn"}

\* The pending set is swapped for an empty one before any task runs: at the
\* start of a pass effectsToRun is what was pending, updateQueue is empty
\* and the loop is at its first turn.
SwappedBeforeRun ==
  PassStarts =>
    /\ updateQueue' = <<>>
    /\ stack'[Len(stack')].pc = 1 /\ stack'[Len(stack')].ran = <<>>
    /\ last'.op \in {"microtask", "flushSync", "batchExit"}
    /\ last'.op # "batchExit" => stack'[Len(stack')].q = updateQueue
    /\ stack'[Len(stack')].q # <<>> \/ last'.op = "microtask"

\* A pass runs no task but those of its effectsToRun, which nothing
\* changes while the pass is on the stack: what a task schedules is placed
\* in updateQueue.
RunsOnlyPending ==
  /\ \A i \in 1..Len(stack) :
       (i <= Len(stack') /\ stack[i].k = "flush" /\ stack'[i].k = "flush")
         => stack'[i].q = stack[i].q
  /\ last'.op \in {"run", "skip", "invalidate"}
       => /\ Top.k = "flush" /\ Top.pc \in 1..Len(Top.q)
          /\ last'.p = IF last'.op = "invalidate" THEN CompOf(Top.q[Top.pc])
                       ELSE Top.q[Top.pc]
          /\ stack'[Len(stack)].pc = Top.pc + 1
  /\ \A e \in EffIds :
       runs'[e] # runs[e] => \/ last'.op = "effect"
                             \/ last'.op = "run" /\ last'.p = e

\* A pass runs every task of its effectsToRun: at its end each effect of
\* effectsToRun has been run by it, unless it was disposed.
PendingAllRun ==
  PassEnds =>
    \A i \in 1..Len(Top.q) :
      \/ IsCE(Top.q[i])
      \/ disposed[Top.q[i]]
      \/ Top.q[i] \in Range(Top.ran)

\* C40: a flush pass runs exactly the tasks that were pending when the pass
\* started: the pending set is swapped for an empty one before any task
\* runs, and a task scheduled by a task run during the pass is placed in
\* the new pending set and runs in a later pass, not in the current one.
C40_PassRunsPending ==
  [][SwappedBeforeRun /\ RunsOnlyPending /\ PendingAllRun]_vars


============================================================================
